---- MODULE Spec2Model ----
(***************************************************************************)
(* Model of simple-wasmer/counter.c: one exported global `int counter`     *)
(* and the two exported functions increment() and get_counter(), as called *)
(* by a host runtime.                                                      *)
(*                                                                         *)
(* Three specifications share the state:                                   *)
(*   Spec        a single caller, starting from the module's initial state *)
(*   SpecNearMax a single caller, starting from the states the module is   *)
(*               in after INT_MAX - k increment() calls (k <= NearMax)     *)
(*   SpecConc    two host threads, counter++ as a load and a store step    *)
(***************************************************************************)
EXTENDS Integers, Sequences, FiniteSets

\* ---------------------------------------------------------------- bounds

\* Number of increment() calls the host issues in one behaviour.
MaxCalls == 7

\* How far below INT_MAX the initial states of SpecNearMax start.
NearMax == 3

\* ------------------------------------------------------ program constants

\* `int` of the wasm32 / emscripten target is 32 bits wide, two's complement.
INT_MAX == 2147483647

INT_MIN == -INT_MAX - 1

\* The host threads of SpecConc.
Threads == {1, 2}

VARIABLES
    counter,    \* the global `int counter`
    status,     \* "running", or "trapped" once a call ended in a trap
    pc,         \* SpecConc: per thread, "idle" or "loaded" (inside counter++)
    tmp,        \* SpecConc: per thread, the value counter++ has read
    budget,     \* increment() calls the host may still issue
    op,         \* history: the last call that completed ("none" at start)
    incs,       \* history: increment() calls completed since the first state
    returned,   \* history: the last two values get_counter() returned
    since,      \* history: increment() calls completed since the last get_counter()
    between     \* history: increment() calls completed between the last two get_counter() calls

vars == <<counter, status, pc, tmp, budget, op, incs, returned, since, between>>

\* ------------------------------------------------------------ the program

\* int counter = 0;
InitialCounterOffByOne == 0 + 1

InitialCounter == 0

\* The outcomes of `counter++` on an int holding c.  Below INT_MAX the result
\* is c + 1.  At INT_MAX the addition overflows a signed int, which C leaves
\* undefined: the wasm32 build emits i32.add and wraps to INT_MIN, a build
\* with overflow trapping (-ftrapv, -fsanitize=signed-integer-overflow)
\* traps before the store.
PostIncrementNoEffect(c) == {[value |-> c, trap |-> FALSE]}

PostIncrement(c) ==
    IF c < INT_MAX
    THEN {[value |-> c + 1, trap |-> FALSE]}
    ELSE {[value |-> INT_MIN, trap |-> FALSE], [value |-> c, trap |-> TRUE]}

\* The last two returned values after get_counter() returned v.
Remember(v) == IF Len(returned) < 2 THEN Append(returned, v) ELSE <<returned[2], v>>

\* void increment() { counter++; } called by a single caller.
IncrementTwice ==
    /\ status = "running"
    /\ budget > 0
    /\ \E r \in PostIncrement(counter) :
        /\ counter' = (IF r.trap \/ r.value = INT_MAX THEN r.value ELSE r.value + 1)
        /\ status' = (IF r.trap THEN "trapped" ELSE "running")
        /\ incs' = (IF r.trap THEN incs ELSE incs + 1)
        /\ since' = (IF r.trap THEN since ELSE since + 1)
    /\ budget' = budget - 1
    /\ op' = "increment"
    /\ UNCHANGED <<pc, tmp, returned, between>>

Increment ==
    /\ status = "running"
    /\ budget > 0
    /\ \E r \in PostIncrement(counter) :
        /\ counter' = r.value
        /\ status' = (IF r.trap THEN "trapped" ELSE "running")
        /\ incs' = (IF r.trap THEN incs ELSE incs + 1)
        /\ since' = (IF r.trap THEN since ELSE since + 1)
    /\ budget' = budget - 1
    /\ op' = "increment"
    /\ UNCHANGED <<pc, tmp, returned, between>>

\* int get_counter() { return counter; }
GetCounterConsuming ==
    /\ status = "running"
    /\ returned' = Remember(counter)
    /\ counter' = 0
    /\ between' = since
    /\ since' = 0
    /\ op' = "get_counter"
    /\ UNCHANGED <<status, pc, tmp, budget, incs>>

GetCounter ==
    /\ status = "running"
    /\ returned' = Remember(counter)
    /\ between' = since
    /\ since' = 0
    /\ op' = "get_counter"
    /\ UNCHANGED <<counter, status, pc, tmp, budget, incs>>

\* counter++ of thread t, first half: read counter.
IncLoadLocked(t) ==
    /\ status = "running"
    /\ budget > 0
    /\ pc[t] = "idle"
    /\ \A u \in Threads : pc[u] = "idle"
    /\ tmp' = [tmp EXCEPT ![t] = counter]
    /\ pc' = [pc EXCEPT ![t] = "loaded"]
    /\ budget' = budget - 1
    /\ UNCHANGED <<counter, status, op, incs, returned, since, between>>

IncLoad(t) ==
    /\ status = "running"
    /\ budget > 0
    /\ pc[t] = "idle"
    /\ tmp' = [tmp EXCEPT ![t] = counter]
    /\ pc' = [pc EXCEPT ![t] = "loaded"]
    /\ budget' = budget - 1
    /\ UNCHANGED <<counter, status, op, incs, returned, since, between>>

\* counter++ of thread t, second half: write the value read plus 1; the call
\* returns.
IncStore(t) ==
    /\ status = "running"
    /\ pc[t] = "loaded"
    /\ \E r \in PostIncrement(tmp[t]) :
        /\ counter' = (IF r.trap THEN counter ELSE r.value)
        /\ status' = (IF r.trap THEN "trapped" ELSE "running")
        /\ incs' = (IF r.trap THEN incs ELSE incs + 1)
        /\ since' = (IF r.trap THEN since ELSE since + 1)
    /\ pc' = [pc EXCEPT ![t] = "idle"]
    /\ op' = "increment"
    /\ UNCHANGED <<tmp, budget, returned, between>>

\* ------------------------------------------------------- specifications

History0 ==
    /\ status = "running"
    /\ pc = [t \in Threads |-> "idle"]
    /\ tmp = [t \in Threads |-> 0]
    /\ budget = MaxCalls
    /\ op = "none"
    /\ incs = 0
    /\ returned = <<>>
    /\ since = 0
    /\ between = 0

\* The module just instantiated.
Init ==
    /\ counter = InitialCounter
    /\ History0

Next == Increment \/ GetCounter

Spec == Init /\ [][Next]_vars

\* The module after INT_MAX - k calls of increment(), 0 <= k <= NearMax; the
\* history variables count from this state on.
InitNearMax ==
    /\ counter \in {INT_MAX - k : k \in 0 .. NearMax}
    /\ History0

SpecNearMax == InitNearMax /\ [][Next]_vars

NextConc ==
    \/ \E t \in Threads : IncLoad(t)
    \/ \E t \in Threads : IncStore(t)
    \/ GetCounter

SpecConc == Init /\ [][NextConc]_vars

\* ------------------------------------------------------------- properties

AllIdle == \A t \in Threads : pc[t] = "idle"

LastReturned == returned[Len(returned)]

\* c + 1 in 32-bit two's complement arithmetic (modulo 2^32).
Succ32(c) == IF c = INT_MAX THEN INT_MIN ELSE c + 1

\* C1: from the initial state, after N calls of increment() by a single
\* caller, with get_counter() calls interleaved anywhere, the counter holds N
\* and the value get_counter() last returned is the number of increment()
\* calls made before it.
C1_GetCounterReturnsN ==
    /\ counter = incs
    /\ Len(returned) > 0 => LastReturned = incs - since

\* Five increment() calls with a get_counter() after the first and after the
\* fifth: the calls returned 1 and 5.
C1_Witness == incs = 5 /\ since = 0 /\ returned = <<1, 5>>

\* C2: while no increment() call has been made, the counter is 0 and every
\* get_counter() call returned 0.
C2_InitiallyZero ==
    budget = MaxCalls =>
        /\ counter = 0
        /\ \A i \in 1 .. Len(returned) : returned[i] = 0

\* get_counter() has returned and no increment() call has been made.
C2_Witness == budget = MaxCalls /\ op = "get_counter" /\ returned = <<0>>

\* C3: a get_counter() call leaves the counter unchanged, and two
\* get_counter() calls with no increment() between them return the same value.
C3_GetCounterPure ==
    /\ [][op' = "get_counter" => counter' = counter]_vars
    /\ [](Len(returned) = 2 /\ between = 0 => returned[1] = returned[2])

\* Two get_counter() calls in a row after three increment() calls.
C3_Witness ==
    /\ op = "get_counter"
    /\ Len(returned) = 2 /\ between = 0 /\ since = 0
    /\ returned[2] = 3 /\ counter = 3

C7_NoMutualExclusion ==
    /\ \A t \in Threads :
        (status = "running" /\ budget > 0 /\ pc[t] = "idle") => ENABLED IncLoad(t)
    /\ counter <= incs
    /\ incs > 0 => counter >= 1

\* Two concurrent increment() calls both completed and the counter grew by 1.
C7_Witness ==
    /\ AllIdle
    /\ budget = MaxCalls - 2
    /\ incs = 2
    /\ tmp[1] = 0 /\ tmp[2] = 0
    /\ counter = 1

\* C8: of two successive get_counter() calls the second returns no less than
\* the first, and the difference is the number of increment() calls made
\* between the two.
C8_ReturnsTrackIncrements ==
    Len(returned) = 2 =>
        /\ returned[2] >= returned[1]
        /\ returned[2] - returned[1] = between

\* get_counter() returned 2, three increment() calls followed, get_counter()
\* returned 5.
C8_Witness == returned = <<2, 5>> /\ between = 3 /\ op = "get_counter"

====
